---------------------------- MODULE Spec2Model ----------------------------
(***************************************************************************)
(* A model of PyCalc.py: the Controller's expression builder, the shift    *)
(* key, the evaluator and the click flash.                                 *)
(*                                                                         *)
(* Python strings are sequences of one-character strings.  A character     *)
(* outside ASCII is written by the name of its code point (chRoot is       *)
(* U+221A and so on); it is still ONE element of the sequence, so len(),   *)
(* slicing and endswith() count it as one character, as Python does.       *)
(***************************************************************************)
EXTENDS Integers, Sequences, FiniteSets, TLC

VARIABLES
  currentExpression,        \* Controller._currentExpression
  currentDisplay,           \* Controller._currentDisplay
  currentResult,            \* Controller._currentResult
  powerParenthesesCount,    \* Controller._powerParenthesesCount
  needsClosingParentheses,  \* Controller._needsClosingParentheses
  shiftState,               \* Window.shiftState
  buttonText,               \* text() of the four buttons setText() relabels
  displayText,              \* text of Window.display (the QLabel)
  styleSheet,               \* styleSheet() of every button
  timers,                   \* pending QTimer.singleShot callbacks, oldest first
  clicks,                   \* number of clicks and direct submissions so far
                            \* (bounds the run)
  submitted,                \* argument of the last call of _buildExpression
  lastKey,                  \* token the last click handled (after the shift table)
  hist,                     \* tokens given to _buildExpression since the last AC or =
  prior                     \* <<internal, display>> expression before the last click
                            \* on a key other than shift

vars == <<currentExpression, currentDisplay, currentResult, powerParenthesesCount,
          needsClosingParentheses, shiftState, buttonText, displayText,
          styleSheet, timers, clicks, submitted, lastKey, hist, prior>>

-----------------------------------------------------------------------------
(* Characters outside ASCII, by code point.                                *)
chRoot     == "U+221A"   \* square-root sign
chCbrt     == "U+221B"   \* cube-root sign
chSupY     == "U+02B8"   \* modifier letter small y
chPi       == "U+03C0"   \* greek small letter pi
chSupMinus == "U+207B"   \* superscript minus
chSupOne   == "U+00B9"   \* superscript one

(* Button texts (tokens).                                                  *)
tShift == <<"s", "h", "i", "f", "t">>
tPow   == <<"x", chSupY>>
tExp   == <<"e", chSupY>>
tTen   == <<"*", "1", "0", chSupY>>
tRoot  == <<chRoot, "x">>
tCbrt  == <<chCbrt, "x">>
tLog   == <<"l", "o", "g">>
tLn    == <<"l", "n">>
tSin   == <<"s", "i", "n">>
tAsin  == <<"s", "i", "n", chSupMinus, chSupOne>>
tPi    == <<chPi>>
tE     == <<"e">>
tOpen  == <<"(">>
tClose == <<")">>
tMod   == <<"M", "O", "D">>
tDel   == <<"D", "E", "L">>
tAc    == <<"A", "C">>
tAns   == <<"A", "N", "S">>
tEq    == <<"=">>
tDot   == <<".">>
tPlus  == <<"+">>
tMinus == <<"-">>
tTimes == <<"*">>
tDiv   == <<"/">>

ERROR_MSG == <<"E", "R", "R", "O", "R">>

DigitChars == {"0", "1", "2", "3", "4", "5", "6", "7", "8", "9"}

(* Window._createButtons: the keyBoard, one button per key.                *)
keyBoard ==
  { tShift, tPow, tRoot, tLog, tSin,
    tPi, tE, tOpen, tClose, tMod,
    <<"7">>, <<"8">>, <<"9">>, tDel, tAc,
    <<"4">>, <<"5">>, <<"6">>, tTimes, tDiv,
    <<"1">>, <<"2">>, <<"3">>, tPlus, tMinus,
    <<"0">>, tDot, tTen, tAns, tEq }

-----------------------------------------------------------------------------
(* Python string helpers.                                                  *)

\* s.endswith(suffix)
EndsWith(s, suffix) ==
  /\ Len(s) >= Len(suffix)
  /\ SubSeq(s, Len(s) - Len(suffix) + 1, Len(s)) = suffix

\* s[:-k] for k >= 0.  s[:-0] is s[:0], the empty string.
SliceOffEnd(s, k) ==
  IF k = 0 \/ k >= Len(s) THEN <<>> ELSE SubSeq(s, 1, Len(s) - k)


\* The characters of a word of ASCII letters, for the long internal spellings.
mathDot == <<"m", "a", "t", "h", ".">>

-----------------------------------------------------------------------------
(* The Controller's expression fields as one record c, so that a handler   *)
(* is an operator from the fields before it runs to the fields after.      *)

Controller(expr, disp, res, cnt, need) ==
  [ currentExpression       |-> expr,
    currentDisplay          |-> disp,
    currentResult           |-> res,
    powerParenthesesCount   |-> cnt,
    needsClosingParentheses |-> need ]

self ==
  Controller(currentExpression, currentDisplay, currentResult,
             powerParenthesesCount, needsClosingParentheses)

\* _clearAll with the count of open power parentheses reset as well.
clearAllResetsCount(c) ==
  [c EXCEPT !.currentDisplay = <<>>, !.currentExpression = <<>>,
            !.powerParenthesesCount = 0]

\* _clearAll that removes the last character only.
clearAllLastOnly(c) ==
  [c EXCEPT !.currentDisplay = SliceOffEnd(@, 1), !.currentExpression = SliceOffEnd(@, 1)]

\* Controller._clearAll
clearAll(c) ==
  [c EXCEPT !.currentDisplay = <<>>, !.currentExpression = <<>>]

\* _appendExpression without its second statement.
appendExpressionDisplayOnly(c, value) ==
  [c EXCEPT !.currentDisplay = @ \o value]

\* Controller._appendExpression
appendExpression(c, value) ==
  [c EXCEPT !.currentDisplay = @ \o value, !.currentExpression = @ \o value]

\* Controller._handleAnswer
handleAnswer(c) ==
  [c EXCEPT !.currentDisplay = @ \o tAns,
            !.currentExpression = @ \o c.currentResult]

\* Controller._clearLastResult
clearLastResult(c) ==
  [c EXCEPT !.currentDisplay = SliceOffEnd(@, 3),
            !.currentExpression = SliceOffEnd(@, Len(c.currentResult))]

\* _handleDelete that cuts one character and takes one from a non-zero count
\* of open power parentheses.
handleDeleteCountsDown(c) ==
  [c EXCEPT !.currentDisplay = SliceOffEnd(@, 1),
            !.currentExpression = SliceOffEnd(@, 1),
            !.powerParenthesesCount = IF @ > 0 THEN @ - 1 ELSE @]

\* Controller._handleDelete
handleDelete(c) ==
  IF EndsWith(c.currentDisplay, tAns)
    THEN clearLastResult(c)
  ELSE IF EndsWith(c.currentDisplay, <<")", "<", "/", "s", "u", "p", ">">>)
    THEN [c EXCEPT !.currentDisplay = SliceOffEnd(@, 7),
                   !.currentExpression = SliceOffEnd(@, 1)]
  ELSE IF EndsWith(c.currentDisplay, <<"<", "s", "u", "p", ">", "(">>)
    THEN [c EXCEPT !.currentDisplay = SliceOffEnd(@, 6),
                   !.currentExpression = SliceOffEnd(@, 3)]
  ELSE [c EXCEPT !.currentDisplay = SliceOffEnd(@, 1),
                 !.currentExpression = SliceOffEnd(@, 1)]

\* Controller._handleMod
handleMod(c) ==
  [c EXCEPT !.currentDisplay = @ \o <<" ", "M", "O", "D", " ">>,
            !.currentExpression = @ \o <<"%">>]

\* Controller._handleExponential
handleExponential(c, subExpression) ==
  IF subExpression = tTen
    THEN [c EXCEPT !.currentDisplay = @ \o <<"*", "1", "0", "<", "s", "u", "p", ">", "(">>,
                   !.currentExpression = @ \o <<"*", "1", "0", "*", "*", "(">>]
  ELSE IF subExpression = tPow
    THEN [c EXCEPT !.currentDisplay = @ \o <<"<", "s", "u", "p", ">", "(">>,
                   !.currentExpression = @ \o <<"*", "*", "(">>]
  ELSE [c EXCEPT !.currentDisplay = @ \o <<"e", "<", "s", "u", "p", ">", "(">>,
                 !.currentExpression = @ \o <<"e", "*", "*", "(">>]

\* Controller._handleSquareRoot.  The test compares the whole token with the
\* one-character string of the root sign.
handleSquareRoot(c, subExpression) ==
  IF subExpression = <<chRoot>>
    THEN [c EXCEPT !.currentDisplay = @ \o SliceOffEnd(subExpression, 1) \o <<"(">>,
                   !.currentExpression = @ \o mathDot \o <<"s", "q", "r", "t", "(">>]
    ELSE [c EXCEPT !.currentDisplay = @ \o SliceOffEnd(subExpression, 1) \o <<"(">>,
                   !.currentExpression = @ \o mathDot \o <<"c", "b", "r", "t", "(">>]

\* operationMapping of Controller._handleUnaryFunction
operationMapping(subExpression) ==
  CASE subExpression = tSin ->
         mathDot \o <<"s", "i", "n", "(">> \o mathDot \o <<"r", "a", "d", "i", "a", "n", "s", "(">>
    [] subExpression = tAsin ->
         mathDot \o <<"a", "s", "i", "n", "(">> \o mathDot \o <<"d", "e", "g", "r", "e", "e", "s", "(">>
    [] subExpression = tLog ->
         mathDot \o <<"l", "o", "g", "1", "0", "(">>
    [] subExpression = tLn ->
         mathDot \o <<"l", "o", "g", "(">>

\* Controller._handleUnaryFunction
handleUnaryFunction(c, subExpression) ==
  [c EXCEPT !.currentDisplay = @ \o subExpression \o <<"(">>,
            !.currentExpression = @ \o operationMapping(subExpression),
            !.needsClosingParentheses =
               IF subExpression \in {tSin, tAsin} THEN TRUE ELSE @]

\* The first statement of _handleClosingParentheses without its test of the
\* count: every closing parenthesis takes one from it.
closePowerParenthesesAlways(c, subExpression) ==
  IF c.powerParenthesesCount = 1
    THEN [c EXCEPT !.currentDisplay = @ \o subExpression \o <<"<", "/", "s", "u", "p", ">">>,
                   !.powerParenthesesCount = @ - 1]
    ELSE [c EXCEPT !.currentDisplay = @ \o subExpression,
                   !.powerParenthesesCount = @ - 1]

\* Controller._handleClosingParentheses, its first statement: the display and
\* the count of open power parentheses.
closePowerParentheses(c, subExpression) ==
  IF c.powerParenthesesCount # 0
    THEN IF c.powerParenthesesCount = 1
           THEN [c EXCEPT !.currentDisplay = @ \o subExpression \o <<"<", "/", "s", "u", "p", ">">>,
                          !.powerParenthesesCount = @ - 1]
           ELSE [c EXCEPT !.currentDisplay = @ \o subExpression,
                          !.powerParenthesesCount = @ - 1]
    ELSE [c EXCEPT !.currentDisplay = @ \o subExpression]

\* Controller._handleClosingParentheses, its last statement: the parenthesis
\* math.radians( or math.degrees( left open.
closeNeededParentheses(c) ==
  IF c.needsClosingParentheses
    THEN [c EXCEPT !.currentExpression = @ \o <<")">>,
                   !.needsClosingParentheses = FALSE]
    ELSE c

\* Controller._handleClosingParentheses
handleClosingParentheses(c, subExpression) ==
  closeNeededParentheses(
    [closePowerParentheses(c, subExpression) EXCEPT !.currentExpression = @ \o subExpression])

\* Controller._handleSpecialExpressions
handleSpecialExpressions(c, subExpression) ==
  IF subExpression = tAc THEN clearAll(c)
  ELSE IF subExpression = tAns THEN handleAnswer(c)
  ELSE IF subExpression = tDel THEN handleDelete(c)
  ELSE IF subExpression = tMod THEN handleMod(c)
  ELSE IF subExpression \in {tTen, tPow, tExp}
    THEN [handleExponential(c, subExpression) EXCEPT !.powerParenthesesCount = @ + 1]
  ELSE IF subExpression \in {tRoot, tCbrt} THEN handleSquareRoot(c, subExpression)
  ELSE IF subExpression \in {tLog, tLn, tSin, tAsin} THEN handleUnaryFunction(c, subExpression)
  ELSE IF subExpression = tClose THEN handleClosingParentheses(c, subExpression)
  ELSE appendExpression(c, subExpression)

\* _handleEmptyExpression without the increment of the count for *10^y.
handleEmptyExpressionNoCount(c, subExpression) ==
  IF subExpression = tTen
    THEN [c EXCEPT !.currentDisplay = tAns \o <<"*", "1", "0", "<", "s", "u", "p", ">", "(">>,
                   !.currentExpression = c.currentResult \o <<"*", "1", "0", "*", "*", "(">>]
  ELSE IF subExpression = tMod
    THEN [c EXCEPT !.currentDisplay = tAns \o <<" ", "M", "O", "D", " ">>,
                   !.currentExpression = c.currentResult \o <<"%">>]
  ELSE [c EXCEPT !.currentDisplay = tAns \o subExpression,
                 !.currentExpression = c.currentResult \o subExpression]

\* Controller._handleEmptyExpression
handleEmptyExpression(c, subExpression) ==
  IF subExpression = tTen
    THEN [c EXCEPT !.currentDisplay = tAns \o <<"*", "1", "0", "<", "s", "u", "p", ">", "(">>,
                   !.currentExpression = c.currentResult \o <<"*", "1", "0", "*", "*", "(">>,
                   !.powerParenthesesCount = @ + 1]
  ELSE IF subExpression = tMod
    THEN [c EXCEPT !.currentDisplay = tAns \o <<" ", "M", "O", "D", " ">>,
                   !.currentExpression = c.currentResult \o <<"%">>]
  ELSE [c EXCEPT !.currentDisplay = tAns \o subExpression,
                 !.currentExpression = c.currentResult \o subExpression]

\* Controller._handlePowerParentheses
handlePowerParentheses(c, subExpression) ==
  IF c.powerParenthesesCount # 0
     /\ subExpression \in {tLog, tSin, tOpen, tRoot, tCbrt, tLn, tAsin}
    THEN [c EXCEPT !.powerParenthesesCount = @ + 1]
    ELSE c

\* applyShiftSubstitutions without its table: the token as it came.
applyShiftSubstitutionsNone(shift, subExpression) == subExpression

\* Controller.applyShiftSubstitutions
applyShiftSubstitutions(shift, subExpression) ==
  IF shift
    THEN CASE subExpression = tRoot -> tCbrt
           [] subExpression = tPow  -> tExp
           [] subExpression = tLog  -> tLn
           [] subExpression = tSin  -> tAsin
           [] OTHER -> subExpression
    ELSE subExpression

\* The first statement of Controller._buildExpression.
resetDisplay(c) ==
  IF c.currentDisplay = ERROR_MSG \/ c.currentExpression = <<>>
    THEN [c EXCEPT !.currentDisplay = <<>>]
    ELSE c

\* The set of tokens Controller._buildExpression applies to the last answer.
leadingOperators == {tPlus, tMinus, tTimes, tDiv, tTen, tMod}

\* The last statement of Controller._buildExpression.
dispatchExpression(c, subExpression) ==
  IF c.currentExpression = <<>> /\ subExpression \in leadingOperators
    THEN handleEmptyExpression(c, subExpression)
    ELSE handleSpecialExpressions(c, subExpression)

\* Controller._buildExpression, on the fields; token is the button's text.
buildExpression(c, shift, token) ==
  dispatchExpression(
    handlePowerParentheses(resetDisplay(c), applyShiftSubstitutions(shift, token)),
    applyShiftSubstitutions(shift, token))

-----------------------------------------------------------------------------
(* evaluateExpression: str(eval(expression, {"math": math, "e": math.e,    *)
(* pi: math.pi})) with every Exception turned into ERROR_MSG.              *)
(*                                                                         *)
(* What eval does is Python's: the model reads the expression as Python    *)
(* reads it (tokens, then the expression grammar) and computes its value.  *)
(* A value is one of                                                       *)
(*   err     the evaluation raises (any Exception);                        *)
(*   int     a Python int n;                                               *)
(*   flt     the float nearest to the rational n/d, d > 0, n/d in lowest   *)
(*           terms (neg is the sign of a zero);                            *)
(*   const   math.e (n = 0) or math.pi (n = 1), negated when neg;          *)
(*   tuple   the empty tuple ();  ellipsis  the object Ellipsis;           *)
(*   logfn   math.log, math.log10, math.log2;  fn  another math function;  *)
(*   module  the module math;                                              *)
(*   unm     an outcome this model does not determine: the text of a float *)
(*           that takes IEEE-754 arithmetic to print, a number beyond      *)
(*           MaxAbs.  The model takes no `=` step from such an expression. *)
(***************************************************************************)

\* Numbers of the model stay within -MaxAbs..MaxAbs (numerators, denominators);
\* Python's ints are unbounded, so a value beyond it is unm, never wrapped.
MaxAbs == 30000

V(k, n, d, neg) == [k |-> k, n |-> n, d |-> d, neg |-> neg]

Err       == V("err", 0, 1, FALSE)
Unm       == V("unm", 0, 1, FALSE)
Tuple0    == V("tuple", 0, 1, FALSE)
EllipsisV == V("ellipsis", 0, 1, FALSE)
ModuleV   == V("module", 0, 1, FALSE)
FnV       == V("fn", 0, 1, FALSE)
LogFnV    == V("logfn", 0, 1, FALSE)
ConstE    == V("const", 0, 1, FALSE)
ConstPi   == V("const", 1, 1, FALSE)

Abs(x) == IF x < 0 THEN -x ELSE x

IntV(n) == IF Abs(n) > MaxAbs THEN Unm ELSE V("int", n, 1, FALSE)

RECURSIVE GCD(_, _)
GCD(a, b) == IF b = 0 THEN a ELSE GCD(b, a % b)

RECURSIVE StripFactor(_, _)
StripFactor(x, f) == IF x % f = 0 THEN StripFactor(x \div f, f) ELSE x

\* d is a power of two: the rational n/d is then itself a float.
IsPow2(d) == StripFactor(d, 2) = 1

\* n/d has a finite decimal expansion.
Terminating(d) == StripFactor(StripFactor(d, 2), 5) = 1

\* The float nearest to n/d (d > 0), when its repr is the decimal expansion of
\* n/d: a finite expansion of at most 15 significant digits, printed without
\* an exponent (1e-4 <= |n/d| < 1e16).  negz is the sign of the result when it
\* is zero.
FltLowest(n1, d1) ==
  IF Abs(n1) > MaxAbs \/ d1 > MaxAbs THEN Unm
  ELSE IF ~Terminating(d1) \/ Abs(n1) * 10000 < d1 THEN Unm
  ELSE V("flt", n1, d1, FALSE)

FltV(n, d, negz) ==
  IF n = 0 THEN V("flt", 0, 1, negz)
  ELSE FltLowest(n \div GCD(Abs(n), d), d \div GCD(Abs(n), d))

IsNumber(v) == v.k \in {"int", "flt", "const"}
IsObject(v) == v.k \in {"tuple", "ellipsis", "fn", "logfn", "module"}
IsRational(v) == v.k \in {"int", "flt"}
IsZero(v)   == IsRational(v) /\ v.n = 0
\* The value is a float of the model, exactly: arithmetic on it rounds once.
IsExact(v)  == v.k = "int" \/ (v.k = "flt" /\ IsPow2(v.d))
\* Sign bit of a number converted to float.
SignBit(v)  == v.n < 0 \/ (v.k = "flt" /\ v.n = 0 /\ v.neg)
IsNegative(v) == (IsRational(v) /\ v.n < 0) \/ (v.k = "const" /\ v.neg)

\* -v
NegV(v) ==
  CASE v.k = "int"   -> IntV(-v.n)
    [] v.k = "flt"   -> V("flt", -v.n, v.d, IF v.n = 0 THEN ~v.neg ELSE FALSE)
    [] v.k = "const" -> V("const", v.n, v.d, ~v.neg)
    [] IsObject(v)   -> Err      \* TypeError: bad operand type for unary -
    [] OTHER         -> v

\* +v
PosV(v) == IF IsObject(v) THEN Err ELSE v

ToFlt(v) == V("flt", v.n, v.d, IF v.k = "flt" THEN v.neg ELSE FALSE)

\* Float addition, multiplication and division of two exact operands.
AddF(a, b) ==
  FltV(a.n * b.d + b.n * a.d, a.d * b.d,
       a.n = 0 /\ b.n = 0 /\ a.neg /\ b.neg)
MulF(a, b) ==
  FltV(a.n * b.n, a.d * b.d, SignBit(a) # SignBit(b))
DivF(a, b) ==
  FltV(IF b.n < 0 THEN -(a.n * b.d) ELSE a.n * b.d, a.d * Abs(b.n),
       SignBit(a) # SignBit(b))

\* a ** b for ints, b >= 0; MaxAbs + 1 once the power passes MaxAbs.
RECURSIVE PowAcc(_, _, _)
PowAcc(a, b, acc) ==
  IF b = 0 THEN acc
  ELSE IF Abs(acc) > MaxAbs THEN MaxAbs + 1
  ELSE IF a \in {0, 1} THEN a
  ELSE IF a = -1 THEN (IF b % 2 = 0 THEN acc ELSE -acc)
  ELSE PowAcc(a, b - 1, acc * a)

\* a op b, for the operators of the expression grammar.
BinOp(op, a, b) ==
  IF a.k = "err" \/ b.k = "err" THEN Err
  \* division or modulo by an int or float zero raises whatever a is
  ELSE IF op \in {"/", "//", "%"} /\ IsZero(b) THEN Err
  ELSE IF a.k = "unm" \/ b.k = "unm" THEN Unm
  ELSE IF IsObject(a) \/ IsObject(b) THEN
    IF op = "+" /\ a.k = "tuple" /\ b.k = "tuple" THEN Tuple0
    ELSE IF op = "*" /\ ((a.k = "tuple" /\ b.k = "int") \/ (a.k = "int" /\ b.k = "tuple"))
      THEN Tuple0
    ELSE Err                     \* TypeError: unsupported operand type(s)
  ELSE IF op = "**" THEN
    IF a.k = "int" /\ b.k = "int" /\ b.n >= 0 THEN IntV(PowAcc(a.n, b.n, 1))
    ELSE IF IsZero(a) /\ IsNegative(b) THEN Err      \* ZeroDivisionError
    ELSE Unm
  ELSE IF a.k = "int" /\ b.k = "int" /\ op # "/" THEN
    CASE op = "+"  -> IntV(a.n + b.n)
      [] op = "-"  -> IntV(a.n - b.n)
      [] op = "*"  -> IntV(a.n * b.n)
      [] op = "//" -> IntV(a.n \div b.n)
      [] op = "%"  -> IntV(a.n - b.n * (a.n \div b.n))
  ELSE IF op \in {"//", "%"} THEN Unm
  ELSE IF ~(IsExact(a) /\ IsExact(b)) THEN Unm
  ELSE
    CASE op = "+" -> AddF(ToFlt(a), ToFlt(b))
      [] op = "-" -> AddF(ToFlt(a), NegV(ToFlt(b)))
      [] op = "*" -> MulF(ToFlt(a), ToFlt(b))
      [] op = "/" -> DivF(ToFlt(a), ToFlt(b))

\* f(arg) with argc arguments (0 or 1: the expressions hold no comma).
CallV(f, argc, arg) ==
  IF f.k = "err" \/ (argc = 1 /\ arg.k = "err") THEN Err
  ELSE IF f.k = "unm" THEN Unm
  ELSE IF f.k \notin {"fn", "logfn"} THEN Err     \* TypeError: not callable
  ELSE IF argc = 0 THEN Err                      \* TypeError: takes one argument
  ELSE IF arg.k = "unm" THEN Unm
  ELSE IF IsObject(arg) THEN Err                  \* TypeError: must be real number
  ELSE IF f.k = "logfn" /\ (IsZero(arg) \/ IsNegative(arg)) THEN Err   \* ValueError
  ELSE Unm

(* str() of a value.                                                        *)

DigitSeq == <<"0", "1", "2", "3", "4", "5", "6", "7", "8", "9">>
DigitChar(k) == DigitSeq[k + 1]
DigitValue(c) == CHOOSE k \in 0..9 : DigitSeq[k + 1] = c

\* Decimal digits of n >= 0.
RECURSIVE NatStr(_)
NatStr(n) == IF n < 10 THEN <<DigitChar(n)>> ELSE NatStr(n \div 10) \o <<DigitChar(n % 10)>>

IntStr(n) == IF n < 0 THEN <<"-">> \o NatStr(-n) ELSE NatStr(n)

\* Digits after the point of r/d (0 <= r < d), by long division.
RECURSIVE FracStr(_, _)
FracStr(r, d) ==
  IF r = 0 THEN <<>>
  ELSE <<DigitChar((r * 10) \div d)>> \o FracStr((r * 10) % d, d)

FracOrZero(frac) == IF frac = <<>> THEN <<"0">> ELSE frac

FltStr(v) ==
  (IF SignBit(v) THEN <<"-">> ELSE <<>>)
    \o NatStr(Abs(v.n) \div v.d) \o <<".">> \o FracOrZero(FracStr(Abs(v.n) % v.d, v.d))

\* repr(math.e), repr(math.pi)
ConstStr(v) ==
  (IF v.neg THEN <<"-">> ELSE <<>>)
    \o (IF v.n = 0
          THEN <<"2", ".", "7", "1", "8", "2", "8", "1", "8", "2", "8", "4", "5", "9", "0", "4", "5">>
          ELSE <<"3", ".", "1", "4", "1", "5", "9", "2", "6", "5", "3", "5", "8", "9", "7", "9", "3">>)

\* Whether the model gives str(v), and str(v).
HasStr(v) == v.k \in {"int", "flt", "const", "tuple", "ellipsis"}
Str(v) ==
  CASE v.k = "int"   -> IntStr(v.n)
    [] v.k = "flt"   -> FltStr(v)
    [] v.k = "const" -> ConstStr(v)
    [] v.k = "tuple" -> <<"(", ")">>
    [] v.k = "ellipsis" -> <<"E", "l", "l", "i", "p", "s", "i", "s">>

-----------------------------------------------------------------------------
(* Python's tokens.  A token is [t, v, s]: t = "num" with its value v,    *)
(* t = "name" with its characters s, t = "op" with its characters s,       *)
(* t = "err" where the tokenizer raises SyntaxError, t = "unm" at a        *)
(* character this model does not read.                                     *)

Letters ==
  { "a", "b", "c", "d", "e", "f", "g", "h", "i", "j", "k", "l", "m",
    "n", "o", "p", "q", "r", "s", "t", "u", "v", "w", "x", "y", "z",
    "A", "B", "C", "D", "E", "F", "G", "H", "I", "J", "K", "L", "M",
    "N", "O", "P", "Q", "R", "S", "T", "U", "V", "W", "X", "Y", "Z" }

IsIdStart(c) == c \in Letters \/ c = "_" \/ c = chPi
IsIdChar(c)  == IsIdStart(c) \/ c \in DigitChars

Tok(t, v, s) == [t |-> t, v |-> v, s |-> s]

RECURSIVE ScanDigits(_, _)
ScanDigits(s, i) ==
  IF i <= Len(s) /\ s[i] \in DigitChars THEN ScanDigits(s, i + 1) ELSE i

RECURSIVE ScanName(_, _)
ScanName(s, i) ==
  IF i <= Len(s) /\ IsIdChar(s[i]) THEN ScanName(s, i + 1) ELSE i

\* The number written by the digits s[i..j-1] after the digits that gave acc;
\* MaxAbs + 1 once it passes MaxAbs.
RECURSIVE DigitsValue(_, _, _, _)
DigitsValue(s, i, j, acc) ==
  IF i >= j THEN acc
  ELSE IF acc > MaxAbs THEN MaxAbs + 1
  ELSE DigitsValue(s, i + 1, j, acc * 10 + DigitValue(s[i]))

TimesTen(p) == IF p > MaxAbs THEN MaxAbs + 1 ELSE p * 10

\* 10 ** k, k >= 0; MaxAbs + 1 once it passes MaxAbs.
RECURSIVE Pow10(_)
Pow10(k) ==
  IF k = 0 THEN 1 ELSE TimesTen(Pow10(k - 1))

\* The float literal mant * 10 ** exp10.
Scaled(mant, exp10, p) ==
  IF p > MaxAbs THEN Unm
  ELSE IF exp10 >= 0 THEN FltV(mant * p, 1, FALSE)
  ELSE FltV(mant, p, FALSE)

FloatLiteral(mant, exp10) ==
  IF mant > MaxAbs THEN Unm
  ELSE IF mant = 0 THEN V("flt", 0, 1, FALSE)
  ELSE IF Abs(exp10) > 9 THEN Unm
  ELSE Scaled(mant, exp10, Pow10(Abs(exp10)))

\* The parts of the number literal at s[i]: its whole digits end before j1,
\* its fraction before j2, its exponent before j3.
HasDot(s, j1)  == j1 <= Len(s) /\ s[j1] = "."
HasE(s, j2)    == j2 <= Len(s) /\ s[j2] \in {"e", "E"}
Signed(s, j2)  == HasE(s, j2) /\ j2 + 1 <= Len(s) /\ s[j2 + 1] \in {"+", "-"}
ExpFrom(s, j2) == IF Signed(s, j2) THEN j2 + 2 ELSE j2 + 1
HasExp(s, j2)  ==
  HasE(s, j2) /\ ExpFrom(s, j2) <= Len(s) /\ s[ExpFrom(s, j2)] \in DigitChars

Mantissa(s, i, j1, j2) ==
  IF HasDot(s, j1) THEN DigitsValue(s, j1 + 1, j2, DigitsValue(s, i, j1, 0))
  ELSE DigitsValue(s, i, j1, 0)

Exponent(s, j2, j3) ==
  IF ~HasExp(s, j2) THEN 0
  ELSE IF Signed(s, j2) /\ s[j2 + 1] = "-" THEN -DigitsValue(s, ExpFrom(s, j2), j3, 0)
  ELSE DigitsValue(s, ExpFrom(s, j2), j3, 0)

Places(s, j1, j2) == IF HasDot(s, j1) THEN j2 - j1 - 1 ELSE 0

\* "leading zeros in decimal integer literals are not permitted"
BadZero(s, i, j1) == j1 - i > 1 /\ s[i] = "0" /\ DigitsValue(s, i, j1, 0) # 0

NumberValue(s, i, j1, j2, j3) ==
  IF ~HasDot(s, j1) /\ ~HasExp(s, j2)
    THEN IF BadZero(s, i, j1) THEN Err ELSE IntV(DigitsValue(s, i, j1, 0))
    ELSE FloatLiteral(Mantissa(s, i, j1, j2), Exponent(s, j2, j3) - Places(s, j1, j2))

\* [tok, p]: a token and the place after it.
At(tok, p) == [tok |-> tok, p |-> p]

NumberTok(s, j3, value) ==
  IF j3 <= Len(s) /\ IsIdChar(s[j3])
    \* a name right after a number: "invalid decimal literal", unless the
    \* letter starts a suffix or prefix of Python this model does not read
    THEN At(Tok(IF s[j3] \in {"m", "e", "E", chPi} THEN "err" ELSE "unm", Err, <<>>),
            Len(s) + 1)
  ELSE IF value.k = "err" THEN At(Tok("err", Err, <<>>), Len(s) + 1)
  ELSE At(Tok("num", value, <<>>), j3)

NumberEnd(s, i, j1, j2, j3) == NumberTok(s, j3, NumberValue(s, i, j1, j2, j3))
NumberExp(s, i, j1, j2) ==
  NumberEnd(s, i, j1, j2, IF HasExp(s, j2) THEN ScanDigits(s, ExpFrom(s, j2)) ELSE j2)
NumberFrac(s, i, j1) ==
  NumberExp(s, i, j1, IF HasDot(s, j1) THEN ScanDigits(s, j1 + 1) ELSE j1)

\* The number literal at s[i]: a digit, or a point before a digit.
NumberAt(s, i) == NumberFrac(s, i, ScanDigits(s, i))

NextChar(s, i) == IF i < Len(s) THEN s[i + 1] ELSE ""

NameAt(s, i, j) == At(Tok("name", Err, SubSeq(s, i, j - 1)), j)

\* The token at s[i].
TokAt(s, i) ==
  IF s[i] \in DigitChars \/ (s[i] = "." /\ NextChar(s, i) \in DigitChars)
    THEN NumberAt(s, i)
  ELSE IF IsIdStart(s[i]) THEN NameAt(s, i, ScanName(s, i))
  ELSE IF s[i] = "." /\ NextChar(s, i) = "." /\ i + 2 <= Len(s) /\ s[i + 2] = "."
    THEN At(Tok("op", Err, <<".", ".", ".">>), i + 3)
  ELSE IF (s[i] = "*" /\ NextChar(s, i) = "*") \/ (s[i] = "/" /\ NextChar(s, i) = "/")
    THEN At(Tok("op", Err, <<s[i], NextChar(s, i)>>), i + 2)
  ELSE IF s[i] \in {"+", "-", "*", "/", "%", "(", ")", "."}
    THEN At(Tok("op", Err, <<s[i]>>), i + 1)
  ELSE At(Tok("unm", Err, <<>>), Len(s) + 1)

\* The tokens read so far and the place of the next one.
LexStep(lx, r) == [toks |-> Append(lx.toks, r.tok), p |-> r.p]

RECURSIVE LexRun(_, _)
LexRun(s, lx) ==
  IF lx.p > Len(s) THEN lx.toks ELSE LexRun(s, LexStep(lx, TokAt(s, lx.p)))

\* The tokens of s from s[i].
Lex(s, i) == LexRun(s, [toks |-> <<>>, p |-> i])

-----------------------------------------------------------------------------
(* Python's expression grammar over the tokens, evaluating as it reads:    *)
(*   arith_expr: term (('+'|'-') term)*                                    *)
(*   term:       factor (('*'|'/'|'%'|'//') factor)*                       *)
(*   factor:     ('+'|'-') factor | power                                  *)
(*   power:      atom trailer* ['**' factor]                               *)
(*   atom:       NUMBER | NAME | '...' | '(' ')' | '(' arith_expr ')'      *)
(*   trailer:    '(' [arith_expr] ')' | '.' NAME                           *)
(* read by operator precedence with a stack of values and a stack of       *)
(* pending operators.  A SyntaxError and an exception raised while         *)
(* evaluating both end in ERROR_MSG; an unm value is read past, since a    *)
(* SyntaxError further on still decides.                                   *)

\* The globals given to eval, and the builtins eval adds to them, as far as
\* the characters of an expression can spell one; another name raises NameError.
NameValue(name) ==
  CASE name = <<"e">>                -> ConstE
    [] name = <<"E", "l", "l", "i", "p", "s", "i", "s">> -> EllipsisV
    [] name = <<chPi>>               -> ConstPi
    [] name = <<"m", "a", "t", "h">> -> ModuleV
    [] OTHER                         -> Err

\* v.name
AttributeValue(v, name) ==
  IF v.k = "err" THEN Err
  ELSE IF v.k # "module" THEN Unm
  ELSE IF name \in { <<"l", "o", "g">>, <<"l", "o", "g", "1", "0">>, <<"l", "o", "g", "2">> }
    THEN LogFnV
  ELSE IF name \in { <<"c", "b", "r", "t">>, <<"s", "i", "n">>, <<"a", "s", "i", "n">>,
                     <<"r", "a", "d", "i", "a", "n", "s">>,
                     <<"d", "e", "g", "r", "e", "e", "s">> }
    THEN FnV
  ELSE IF name = <<"e">> THEN ConstE
  ELSE Unm

\* A pending operator: a binary operator, a unary one ("neg", "pos"), or an
\* open parenthesis ("(" of an atom, "call" of a trailer).
OpName(s) ==
  IF s = <<"/", "/">> THEN "//" ELSE IF s = <<"*", "*">> THEN "**" ELSE s[1]

Prec(op) ==
  CASE op \in {"+", "-"}            -> 1
    [] op \in {"*", "/", "//", "%"} -> 2
    [] op \in {"neg", "pos"}        -> 3
    [] op = "**"                    -> 4
    [] OTHER                        -> 0

Top(s) == s[Len(s)]
Pop(s) == SubSeq(s, 1, Len(s) - 1)

\* The reader: the values read, the pending operators, what may come next
\* (mode: an operand, an operator, the name of an attribute), whether the last
\* token opened a parenthesis, and whether a SyntaxError was met.
Reader(vals, ops, mode, opened, bad) ==
  [vals |-> vals, ops |-> ops, mode |-> mode, opened |-> opened, bad |-> bad]

\* Apply the last pending operator to the last values.
ApplyTop(st) ==
  IF Top(st.ops) \in {"neg", "pos"}
    THEN [st EXCEPT !.ops  = Pop(@),
                    !.vals = Pop(@) \o <<IF Top(st.ops) = "neg" THEN NegV(Top(@))
                                                               ELSE PosV(Top(@))>>]
    ELSE [st EXCEPT !.ops  = Pop(@),
                    !.vals = SubSeq(@, 1, Len(@) - 2)
                               \o <<BinOp(Top(st.ops), @[Len(@) - 1], @[Len(@)])>>]

\* Apply the pending operators that bind at least as tightly as p (p >= 1: an
\* open parenthesis stays).
RECURSIVE Reduce(_, _)
Reduce(st, p) ==
  IF st.ops # <<>> /\ Prec(Top(st.ops)) >= p THEN Reduce(ApplyTop(st), p) ELSE st

Shift(st, op) ==
  [st EXCEPT !.ops = Append(@, op), !.mode = "operand", !.opened = op \in {"(", "call"}]
Push(st, v) ==
  [st EXCEPT !.vals = Append(@, v), !.mode = "operator", !.opened = FALSE]
Bad(st) == [st EXCEPT !.bad = TRUE]

\* ')': the empty tuple or a call without argument right after '(', else the
\* end of a parenthesised expression or of a call's argument.
CloseReduced(st, r) ==
  IF r.ops = <<>> THEN Bad(st)
  ELSE IF Top(r.ops) = "(" THEN [r EXCEPT !.ops = Pop(@)]
  ELSE Push([r EXCEPT !.ops = Pop(@), !.vals = SubSeq(@, 1, Len(@) - 2)],
            CallV(r.vals[Len(r.vals) - 1], 1, Top(r.vals)))

Close(st) ==
  IF st.mode = "operand"
    THEN IF ~st.opened THEN Bad(st)
         ELSE IF Top(st.ops) = "(" THEN Push([st EXCEPT !.ops = Pop(@)], Tuple0)
         ELSE Push([st EXCEPT !.ops = Pop(@), !.vals = Pop(@)],
                   CallV(Top(st.vals), 0, Err))
    ELSE CloseReduced(st, Reduce(st, 1))

\* Read one token.
Step(st, tok) ==
  IF st.bad THEN st
  ELSE IF st.mode = "attr"
    THEN IF tok.t = "name"
           THEN Push([st EXCEPT !.vals = Pop(@)], AttributeValue(Top(st.vals), tok.s))
           ELSE Bad(st)
  ELSE IF tok.t = "op" /\ tok.s = <<")">> THEN Close(st)
  ELSE IF st.mode = "operand"
    THEN CASE tok.t = "num"  -> Push(st, tok.v)
           [] tok.t = "name" -> Push(st, NameValue(tok.s))
           [] tok.t = "op" /\ tok.s = <<".", ".", ".">> -> Push(st, EllipsisV)
           [] tok.t = "op" /\ tok.s = <<"(">> -> Shift(st, "(")
           [] tok.t = "op" /\ tok.s = <<"+">> -> Shift(st, "pos")
           [] tok.t = "op" /\ tok.s = <<"-">> -> Shift(st, "neg")
           [] OTHER -> Bad(st)
  ELSE CASE tok.t = "op" /\ tok.s \in { <<"+">>, <<"-">>, <<"*">>, <<"/">>, <<"%">>, <<"/", "/">> }
              -> Shift(Reduce(st, Prec(OpName(tok.s))), OpName(tok.s))
         [] tok.t = "op" /\ tok.s = <<"*", "*">> -> Shift(st, "**")
         [] tok.t = "op" /\ tok.s = <<"(">> -> Shift(st, "call")
         [] tok.t = "op" /\ tok.s = <<".">> -> [st EXCEPT !.mode = "attr"]
         [] OTHER -> Bad(st)

RECURSIVE Run(_, _, _)
Run(toks, i, st) ==
  IF i > Len(toks) THEN st ELSE Run(toks, i + 1, Step(st, toks[i]))

FinishReduced(r) == IF r.ops # <<>> THEN Err ELSE r.vals[1]

\* The value at the end of the tokens.
Finish(st) ==
  IF st.bad \/ st.mode # "operator" THEN Err ELSE FinishReduced(Reduce(st, 1))

\* eval(expression, ...): the value, err where eval raises.
EvalTokens(toks) ==
  IF \E i \in 1..Len(toks) : toks[i].t = "unm" THEN Unm
  ELSE IF \E i \in 1..Len(toks) : toks[i].t = "err" THEN Err
  ELSE Finish(Run(toks, 1, Reader(<<>>, <<>>, "operand", FALSE, FALSE)))

Eval(expression) == EvalTokens(Lex(expression, 1))

\* Whether the model gives the text evaluateExpression returns.
HasText(v) == v.k = "err" \/ HasStr(v)
Modelled(expression) == HasText(Eval(expression))

\* str(value), ERROR_MSG where eval raised.
resultText(v) == IF v.k = "err" THEN ERROR_MSG ELSE Str(v)

evaluateExpression(expression) == resultText(Eval(expression))

-----------------------------------------------------------------------------
(* The Controller's other handlers.                                        *)

\* _calculateResult that keeps the two expressions when the evaluation failed.
calculateResultKeepsFailed(c) ==
  IF evaluateExpression(c.currentExpression) = ERROR_MSG
    THEN [c EXCEPT !.currentResult = ERROR_MSG]
    ELSE [c EXCEPT !.currentResult     = evaluateExpression(c.currentExpression),
                   !.currentExpression = <<>>,
                   !.currentDisplay    = <<>>]

\* _calculateResult that leaves the text of the result in the two expressions.
calculateResultKeepsResult(c) ==
  [c EXCEPT !.currentResult     = evaluateExpression(c.currentExpression),
            !.currentExpression = evaluateExpression(c.currentExpression),
            !.currentDisplay    = evaluateExpression(c.currentExpression)]

\* Controller._calculateResult, on the fields.
calculateResult(c) ==
  [c EXCEPT !.currentResult     = evaluateExpression(c.currentExpression),
            !.currentExpression = <<>>,
            !.currentDisplay    = <<>>]

\* shiftMapping of Controller._updateButtonLabels
shiftMapping ==
  [key \in {tRoot, tPow, tLog, tSin} |->
     CASE key = tRoot -> tCbrt
       [] key = tPow  -> tExp
       [] key = tLog  -> tLn
       [] key = tSin  -> tAsin]

\* Controller._updateButtonLabels: the texts setText() leaves on the buttons.
updateButtonLabels(checked) ==
  [key \in DOMAIN shiftMapping |-> IF checked THEN shiftMapping[key] ELSE key]

\* The Window's shift state and the texts of the buttons it relabels.
View(shift, texts) == [shiftState |-> shift, buttonText |-> texts]

view == View(shiftState, buttonText)

\* _toggleShiftState without its call of _updateButtonLabels.
toggleShiftStateNoLabels(v) == [v EXCEPT !.shiftState = ~@]

\* Controller._toggleShiftState
toggleShiftState(v) == View(~v.shiftState, updateButtonLabels(~v.shiftState))

\* button.text()
text(button) ==
  IF button \in DOMAIN buttonText THEN buttonText[button] ELSE button

\* Window._styleButton gives every button buttonStyle; a click gives it
\* animationStyle.
buttonStyle    == "buttonStyle"
animationStyle == "animationStyle"

-----------------------------------------------------------------------------
(* The state after Window() and Controller(view, model).                   *)
Init ==
  /\ currentExpression = <<>>
  /\ currentResult = <<>>
  /\ currentDisplay = <<>>
  /\ powerParenthesesCount = 0
  /\ needsClosingParentheses = FALSE
  /\ shiftState = FALSE
  /\ buttonText = updateButtonLabels(FALSE)
  /\ displayText = <<>>
  /\ styleSheet = [button \in keyBoard |-> buttonStyle]
  /\ timers = <<>>
  /\ clicks = 0
  /\ submitted = <<>>
  /\ lastKey = <<>>
  /\ hist = <<>>
  /\ prior = <<<<>>, <<>>>>

\* Lines 281-287 of Controller._handleButtonClick: the button takes the
\* animation style and a single-shot timer is set to give it back the style it
\* had when clicked.
Flash(button) ==
  /\ styleSheet' = [styleSheet EXCEPT ![button] = animationStyle]
  /\ timers' = Append(timers, [button |-> button, originalStyle |-> styleSheet[button]])
  /\ clicks' = clicks + 1

\* Controller._handleButtonClick on the shift button: _toggleShiftState.
ClickShift ==
  /\ Flash(tShift)
  /\ \E v \in {toggleShiftState(view)} :
         /\ shiftState' = v.shiftState
         /\ buttonText' = v.buttonText
  /\ lastKey' = tShift
  /\ UNCHANGED <<currentExpression, currentDisplay, currentResult, powerParenthesesCount,
                 needsClosingParentheses, displayText, submitted, hist, prior>>

\* Controller._handleButtonClick on the = button: _calculateResult.  (Taken
\* where the model gives the text of the result.)
ClickEquals ==
  /\ Modelled(currentExpression)
  /\ Flash(tEq)
  /\ \E c \in {calculateResult(self)} :
         /\ currentResult' = c.currentResult
         /\ currentExpression' = c.currentExpression
         /\ currentDisplay' = c.currentDisplay
         /\ displayText' = c.currentResult
  /\ lastKey' = tEq
  /\ hist' = <<>>
  /\ prior' = <<currentExpression, currentDisplay>>
  /\ UNCHANGED <<powerParenthesesCount, needsClosingParentheses, shiftState, buttonText,
                 submitted>>

\* Controller._handleButtonClick on another button: _buildExpression with the
\* button's text, and the display takes the new display expression.
ClickKey(buttons) ==
  \E button \in buttons \ {tShift, tEq} :
    \E c \in {buildExpression(self, shiftState, text(button))},
       subExpression \in {applyShiftSubstitutions(shiftState, text(button))} :
        /\ Flash(button)
        /\ currentExpression' = c.currentExpression
        /\ currentDisplay' = c.currentDisplay
        /\ currentResult' = c.currentResult
        /\ powerParenthesesCount' = c.powerParenthesesCount
        /\ needsClosingParentheses' = c.needsClosingParentheses
        /\ displayText' = c.currentDisplay
        /\ submitted' = text(button)
        /\ lastKey' = subExpression
        /\ hist' = IF subExpression = tAc THEN <<>> ELSE Append(hist, subExpression)
        /\ prior' = <<currentExpression, currentDisplay>>
        /\ UNCHANGED <<shiftState, buttonText>>

\* Controller._buildExpression called with a token, as a caller other than
\* the click handler calls it: no button is involved, so nothing flashes.
Submit(tokens) ==
  \E token \in tokens :
    \E c \in {buildExpression(self, shiftState, token)},
       subExpression \in {applyShiftSubstitutions(shiftState, token)} :
        /\ currentExpression' = c.currentExpression
        /\ currentDisplay' = c.currentDisplay
        /\ currentResult' = c.currentResult
        /\ powerParenthesesCount' = c.powerParenthesesCount
        /\ needsClosingParentheses' = c.needsClosingParentheses
        /\ displayText' = c.currentDisplay
        /\ clicks' = clicks + 1
        /\ submitted' = token
        /\ lastKey' = subExpression
        /\ hist' = IF subExpression = tAc THEN <<>> ELSE Append(hist, subExpression)
        /\ prior' = <<currentExpression, currentDisplay>>
        /\ UNCHANGED <<shiftState, buttonText, styleSheet, timers>>

\* The callback of QTimer.singleShot(100, ...): the timers all wait 100 ms, so
\* they fire in the order of the clicks.
FireTimer ==
  /\ timers # <<>>
  /\ styleSheet' = [styleSheet EXCEPT ![Head(timers).button] = Head(timers).originalStyle]
  /\ timers' = Tail(timers)
  /\ UNCHANGED <<currentExpression, currentDisplay, currentResult, powerParenthesesCount,
                 needsClosingParentheses, shiftState, buttonText, displayText,
                 clicks, submitted, lastKey, hist, prior>>

-----------------------------------------------------------------------------
(* Specifications.  Spec clicks any button of the keyBoard; a run of it is  *)
(* at most MaxClicks clicks long.  The others click the buttons of a part   *)
(* of the keyBoard, in longer runs.                                         *)

MaxClicks == 3

Next ==
  \/ clicks < MaxClicks /\ ClickShift
  \/ clicks < MaxClicks /\ ClickEquals
  \/ clicks < MaxClicks /\ ClickKey(keyBoard)
  \/ FireTimer

Spec == Init /\ [][Next]_vars

\* Plain arithmetic: three digits, the point, the four operators and =.
KeysArith ==
  { <<"0">>, <<"3">>, <<"7">>, tDot, tPlus, tMinus, tTimes, tDiv, tEq }

MaxClicksArith == 4

NextArith ==
  \/ clicks < MaxClicksArith /\ ClickEquals
  \/ clicks < MaxClicksArith /\ ClickKey(KeysArith)
  \/ FireTimer

SpecArith == Init /\ [][NextArith]_vars

\* The power key after an answer.
KeysPow == { <<"4">>, <<"2">>, tPow, tClose, tEq }

MaxClicksPow == 6

NextPow ==
  \/ clicks < MaxClicksPow /\ ClickEquals
  \/ clicks < MaxClicksPow /\ ClickKey(KeysPow)
  \/ FireTimer

SpecPow == Init /\ [][NextPow]_vars

\* The sine key, parentheses and AC.
KeysTrig == { tSin, <<"3">>, <<"0">>, tOpen, tClose, tAc, tEq }

MaxClicksTrig == 5

NextTrig ==
  \/ clicks < MaxClicksTrig /\ ClickEquals
  \/ clicks < MaxClicksTrig /\ ClickKey(KeysTrig)
  \/ FireTimer

SpecTrig == Init /\ [][NextTrig]_vars

\* DEL after the tokens that open a function or a parenthesis.
KeysDel == { tSin, tLog, <<"2">>, tOpen, tClose, tDel, tEq }

MaxClicksDel == 4

NextDel ==
  \/ clicks < MaxClicksDel /\ ClickEquals
  \/ clicks < MaxClicksDel /\ ClickKey(KeysDel)
  \/ FireTimer

SpecDel == Init /\ [][NextDel]_vars

\* Expressions that fail to evaluate, and what is typed after them.
KeysErr == { <<"5">>, <<"0">>, <<"3">>, tDiv, tPlus, tLog, tClose, tAns, tEq }

MaxClicksErr == 4

NextErr ==
  \/ clicks < MaxClicksErr /\ ClickEquals
  \/ clicks < MaxClicksErr /\ ClickKey(KeysErr)
  \/ FireTimer

SpecErr == Init /\ [][NextErr]_vars

\* Power groups, with shift, AC, DEL and =.
KeysGroup == { tShift, tPow, tTen, tOpen, tClose, <<"2">>, tAc, tDel, tEq }

MaxClicksGroup == 4

NextGroup ==
  \/ clicks < MaxClicksGroup /\ ClickShift
  \/ clicks < MaxClicksGroup /\ ClickEquals
  \/ clicks < MaxClicksGroup /\ ClickKey(KeysGroup)
  \/ FireTimer

SpecGroup == Init /\ [][NextGroup]_vars

\* The shift button, and tokens given to _buildExpression directly: the four
\* tokens of the shift table, their shifted forms and some others.
KeysSubmit ==
  { tRoot, tPow, tLog, tSin, tCbrt, tExp, tLn, tAsin, tClose, <<"2">>, tPlus, tDel }

MaxSubmits == 4

NextSubmit ==
  \/ clicks < MaxSubmits /\ ClickShift
  \/ clicks < MaxSubmits /\ Submit(KeysSubmit)
  \/ FireTimer

SpecSubmit == Init /\ [][NextSubmit]_vars

\* A function key, DEL cutting its internal spelling short, and e.
KeysVocab == { tRoot, tDel, tE, tEq }

MaxClicksVocab == 8

NextVocab ==
  \/ clicks < MaxClicksVocab /\ ClickEquals
  \/ clicks < MaxClicksVocab /\ ClickKey(KeysVocab)
  \/ FireTimer

SpecVocab == Init /\ [][NextVocab]_vars

-----------------------------------------------------------------------------
(* The claims about the Controller.  A claim about a submission is stated  *)
(* on the click step: the unprimed variables are the state the token is    *)
(* submitted from, the primed ones the state after it, and lastKey' is the *)
(* token after the shift table.                                            *)

\* The step is a click on a button.
IsClick == clicks' = clicks + 1

DigitTokens == { <<d>> : d \in DigitChars }

IsPrefix(p, s) == Len(p) <= Len(s) /\ SubSeq(s, 1, Len(p)) = p

\* Number of occurrences of the character ch in s.
Count(s, ch) == Cardinality({ i \in 1..Len(s) : s[i] = ch })

\* No closing parenthesis before its opening one, and as many of each.
Balanced(s) ==
  /\ Count(s, "(") = Count(s, ")")
  /\ \A n \in 1..Len(s) : Count(SubSeq(s, 1, n), ")") <= Count(SubSeq(s, 1, n), "(")

\* The tokens that insert something.
InsertionTokens ==
  DigitTokens \cup
    { tDot, tPlus, tMinus, tTimes, tDiv, tMod, tOpen, tClose, tPow, tExp, tTen,
      tRoot, tCbrt, tLog, tLn, tSin, tAsin, tAns, tPi, tE }

\* C1: backspace inverts the last insertion: a DEL submitted right after an
\* insertion token leaves the internal expression and the display expression
\* that the insertion token was submitted from.
C1_BackspaceInverts ==
  [][(IsClick /\ lastKey \in InsertionTokens /\ lastKey' = tDel)
       => (currentExpression' = prior[1] /\ currentDisplay' = prior[2])]_vars

\* C2: scenario E: with the last answer "4", the tokens x^y, 2, ) submitted
\* from an empty expression build the answer raised to the power, and = gives
\* the result "16".
C2_ScenarioE ==
  [][(IsClick /\ lastKey' = tEq /\ currentResult = <<"4">>
        /\ hist = <<tPow, <<"2">>, tClose>>)
       => (/\ currentExpression = <<"4", "*", "*", "(", "2", ")">>
           /\ currentResult' = <<"1", "6">>)]_vars

\* The tokens of the leading-operator rule, and what each one appends to the
\* display and to the internal expression.
LeadingTokens == {tPlus, tMinus, tTimes, tDiv, tTen, tMod}

DisplaySpelling(t) ==
  IF t = tTen THEN <<"*", "1", "0", "<", "s", "u", "p", ">", "(">>
  ELSE IF t = tMod THEN <<" ", "M", "O", "D", " ">>
  ELSE t

InternalSpelling(t) ==
  IF t = tTen THEN <<"*", "1", "0", "*", "*", "(">>
  ELSE IF t = tMod THEN <<"%">>
  ELSE t

\* C3: leading-operator rule: when the internal expression is empty and the
\* token is one of + - * / *10^y MOD, the display becomes "ANS" and the token's
\* display spelling, the internal expression the last answer and the token's
\* internal spelling, and the count of open power groups grows by one for
\* *10^y and stays for the other five.
C3_LeadingOperator ==
  [][(IsClick /\ currentExpression = <<>> /\ lastKey' \in LeadingTokens)
       => (/\ currentDisplay' = tAns \o DisplaySpelling(lastKey')
           /\ currentExpression' = currentResult \o InternalSpelling(lastKey')
           /\ powerParenthesesCount' =
                powerParenthesesCount + (IF lastKey' = tTen THEN 1 ELSE 0))]_vars

\* *10^y submitted from an empty expression after the answer "7".
C3_Witness ==
  /\ lastKey = tTen
  /\ prior[1] = <<>>
  /\ currentResult = <<"7">>
  /\ currentDisplay = <<"A", "N", "S", "*", "1", "0", "<", "s", "u", "p", ">", "(">>
  /\ currentExpression = <<"7", "*", "1", "0", "*", "*", "(">>
  /\ powerParenthesesCount = 1

\* C4: a sine token adds two opening parentheses to the internal expression
\* and one to the display; sin, 3, 0, ) builds math.sin(math.radians(30)); and
\* whenever the display's parentheses are balanced at =, so are those of the
\* internal expression handed to the evaluator.
C4_TrigParentheses ==
  [][IsClick =>
       /\ (lastKey' \in {tSin, tAsin} =>
             /\ Count(currentExpression', "(") = Count(currentExpression, "(") + 2
             /\ Count(currentDisplay', "(") =
                  Count(IF currentExpression = <<>> THEN <<>> ELSE currentDisplay, "(") + 1)
       /\ (hist' = <<tSin, <<"3">>, <<"0">>, tClose>> =>
             currentExpression' =
               mathDot \o <<"s", "i", "n", "(">> \o mathDot
                 \o <<"r", "a", "d", "i", "a", "n", "s", "(", "3", "0", ")", ")">>)
       /\ (lastKey' = tEq /\ Balanced(currentDisplay) => Balanced(currentExpression))]_vars

\* C5: the square-root token appends math.sqrt( to the internal expression
\* and the root sign with ( to the display; the cube-root token appends
\* math.cbrt( and the cube-root sign with (.
C5_RootSpelling ==
  [][IsClick =>
       /\ (lastKey' = tRoot =>
             /\ currentExpression' =
                  currentExpression \o mathDot \o <<"s", "q", "r", "t", "(">>
             /\ EndsWith(currentDisplay', <<chRoot, "(">>))
       /\ (lastKey' = tCbrt =>
             /\ currentExpression' =
                  currentExpression \o mathDot \o <<"c", "b", "r", "t", "(">>
             /\ EndsWith(currentDisplay', <<chCbrt, "(">>))]_vars

\* C6: nesting never goes negative: the count of open power groups is at
\* least 0 after every step.
C6_NestingNonNegative == powerParenthesesCount >= 0

\* One power group opened, and two closing parentheses after it.
C6_Witness ==
  /\ hist = <<tPow, tClose, tClose>>
  /\ lastKey = tClose
  /\ powerParenthesesCount = 0

\* Expressions that do not evaluate, by their form: nothing or a last
\* character that needs an operand after it (a syntax error), a division by
\* the literal 0 (division by zero), the logarithm of 0 (a domain error).
SyntaxFails(e) == e = <<>> \/ e[Len(e)] \in {"+", "-", "*", "/", "%", "("}
ZeroDivides(e) == Len(e) >= 2 /\ e[Len(e)] = "0" /\ e[Len(e) - 1] = "/"
DomainFails(e) == e = mathDot \o <<"l", "o", "g", "1", "0", "(", "0", ")">>

\* C7: after =, whether the evaluation failed or not, the internal and the
\* display expression are empty and the result shown is the new last answer;
\* when the expression (prior[1]) has a syntax error, divides by zero or takes
\* the logarithm of 0 that result is "ERROR"; 5+3 gives "8".
C7_EvaluationFailure ==
  lastKey = tEq =>
    /\ currentExpression = <<>>
    /\ currentDisplay = <<>>
    /\ displayText = currentResult
    /\ (SyntaxFails(prior[1]) \/ ZeroDivides(prior[1]) \/ DomainFails(prior[1])
          => currentResult = ERROR_MSG)
    /\ (prior[1] = <<"5", "+", "3">> => currentResult = <<"8">>)

\* 5, /, 0, = : the result is "ERROR" and both expressions are empty.
C7_Witness ==
  /\ lastKey = tEq
  /\ prior[1] = <<"5", "/", "0">>
  /\ currentResult = ERROR_MSG
  /\ displayText = ERROR_MSG
  /\ currentExpression = <<>>
  /\ currentDisplay = <<>>

\* The insertion tokens that are not operators, but for the root tokens, and
\* what each one gives from an empty expression (answer: the last answer).
NonOperatorTokens ==
  DigitTokens \cup { tDot, tOpen, tClose, tPi, tE, tAns, tLog, tLn, tSin, tAsin, tPow, tExp }

FreshDisplay(t) ==
  CASE t \in {tLog, tLn, tSin, tAsin} -> t \o <<"(">>
    [] t = tPow  -> <<"<", "s", "u", "p", ">", "(">>
    [] t = tExp  -> <<"e", "<", "s", "u", "p", ">", "(">>
    [] OTHER     -> t

FreshInternal(t, answer) ==
  CASE t = tLog  -> mathDot \o <<"l", "o", "g", "1", "0", "(">>
    [] t = tLn   -> mathDot \o <<"l", "o", "g", "(">>
    [] t = tSin  -> mathDot \o <<"s", "i", "n", "(">> \o mathDot
                      \o <<"r", "a", "d", "i", "a", "n", "s", "(">>
    [] t = tAsin -> mathDot \o <<"a", "s", "i", "n", "(">> \o mathDot
                      \o <<"d", "e", "g", "r", "e", "e", "s", "(">>
    [] t = tPow  -> <<"*", "*", "(">>
    [] t = tExp  -> <<"e", "*", "*", "(">>
    [] t = tAns  -> answer
    [] OTHER     -> t

C9_ClearFrame ==
  [][(IsClick /\ lastKey' = tAc)
       => (/\ currentExpression' = <<>>
           /\ currentDisplay' = <<>>
           /\ currentResult' = currentResult
           /\ powerParenthesesCount' = powerParenthesesCount
           /\ shiftState' = shiftState)]_vars

\* AC with an answer, an open power group and the shift active.
C9_Witness ==
  /\ lastKey = tAc
  /\ prior[1] # <<>>
  /\ currentResult # <<>>
  /\ powerParenthesesCount > 0
  /\ shiftState
  /\ currentExpression = <<>>
  /\ currentDisplay = <<>>

\* The tokens of plain arithmetic, and a run of them since the expression was
\* last empty.
ArithOperators == {tPlus, tMinus, tTimes, tDiv}
PlainTokens == DigitTokens \cup {tDot} \cup ArithOperators
PlainRun == hist # <<>> /\ \A i \in DOMAIN hist : hist[i] \in PlainTokens

\* The concatenation of the tokens of h.
RECURSIVE Flatten(_)
Flatten(h) == IF h = <<>> THEN <<>> ELSE Head(h) \o Flatten(Tail(h))

\* Integers without leading zeros, joined by single + - *.
IsOperatorChar(ch) == ch \in {"+", "-", "*"}
IntegerArithmetic(e) ==
  /\ e # <<>>
  /\ \A i \in 1..Len(e) : e[i] \in DigitChars \/ IsOperatorChar(e[i])
  /\ ~IsOperatorChar(e[1]) /\ ~IsOperatorChar(e[Len(e)])
  /\ \A i \in 1..(Len(e) - 1) : ~(IsOperatorChar(e[i]) /\ IsOperatorChar(e[i + 1]))
  /\ \A i \in 1..(Len(e) - 1) :
       (e[i] = "0" /\ (i = 1 \/ IsOperatorChar(e[i - 1]))) => IsOperatorChar(e[i + 1])

\* The value of such an expression by ordinary arithmetic: the sum so far,
\* and the sign, the product and the number of the term being read.
RECURSIVE ArithFold(_, _, _, _, _, _)
ArithFold(e, i, sum, sign, prod, num) ==
  IF i > Len(e) THEN sum + sign * prod * num
  ELSE IF e[i] \in DigitChars
    THEN ArithFold(e, i + 1, sum, sign, prod, num * 10 + DigitValue(e[i]))
  ELSE IF e[i] = "*" THEN ArithFold(e, i + 1, sum, sign, prod * num, 0)
  ELSE ArithFold(e, i + 1, sum + sign * prod * num, IF e[i] = "+" THEN 1 ELSE -1, 1, 0)

ArithValue(e) == ArithFold(e, 1, 0, 1, 1, 0)

\* What = gives for the internal expression e of plain arithmetic.
ArithResult(e, result) ==
  /\ (IntegerArithmetic(e) => result = IntStr(ArithValue(e)))
  /\ (SyntaxFails(e) \/ ZeroDivides(e) => result = ERROR_MSG)

AnswerPrefix(h, answer) == IF h[1] \in ArithOperators THEN answer ELSE <<>>

Session(c) ==
  <<c.currentExpression, c.currentDisplay, c.powerParenthesesCount,
    c.needsClosingParentheses>>

\* The step gives a token to _buildExpression.
IsSubmission == IsClick /\ lastKey' # tShift /\ lastKey' # tEq

\* C11: shift substitution is applied once, before any other rule: with the
\* shift active, submitting one of the four tokens of the shift table leaves
\* the internal expression, the display, the count of open power groups and
\* the pending implicit close that submitting its shifted form with the shift
\* inactive leaves; every other token, an already-shifted one included, leaves
\* what it leaves with the shift inactive.
C11_ShiftSubstitution ==
  [][IsSubmission =>
       /\ (shiftState /\ submitted' \in DOMAIN shiftMapping
             => Session(self') = Session(buildExpression(self, FALSE, shiftMapping[submitted'])))
       /\ (submitted' \notin DOMAIN shiftMapping
             => Session(self') = Session(buildExpression(self, FALSE, submitted')))]_vars

\* log submitted with the shift active, after a 2: the display and the
\* internal expression are those of ln.
C11_Witness ==
  /\ shiftState
  /\ submitted = tLog
  /\ lastKey = tLn
  /\ currentDisplay = <<"2", "l", "n", "(">>
  /\ currentExpression = <<"2">> \o mathDot \o <<"l", "o", "g", "(">>

\* Each of the four buttons shows its shifted text when the shift is active
\* and its own key when it is not.
LabelsFollowShift ==
  \A key \in DOMAIN shiftMapping :
    /\ (text(key) = shiftMapping[key]) <=> shiftState
    /\ (text(key) = key) <=> ~shiftState

\* C12: shift toggling is an involution on labels: a toggle inverts the shift
\* state, a second toggle gives back the shift state and the four labels the
\* first one started from, and in every state each of the four labels is the
\* shifted one exactly when the shift is active.
C12_ShiftInvolution ==
  /\ []LabelsFollowShift
  /\ [][(IsClick /\ lastKey' = tShift)
          => (/\ shiftState' = ~shiftState
              /\ toggleShiftState(view') = view
              /\ toggleShiftState(toggleShiftState(view)) = view)]_vars

\* Two clicks on shift from the initial state: the labels are the keys again.
C12_Witness ==
  /\ clicks = 2
  /\ lastKey = tShift
  /\ hist = <<>>
  /\ ~shiftState
  /\ buttonText = [key \in {tRoot, tPow, tLog, tSin} |-> key]

\* C13: AC is idempotent: an AC submitted from the state an AC has left
\* changes nothing of the internal expression, the display, the last answer,
\* the count of open power groups, the pending implicit close and the shift
\* state; so two ACs leave what one leaves.
C13_ClearIdempotent ==
  [][(IsClick /\ lastKey' = tAc)
       => (/\ shiftState' = shiftState
           /\ buildExpression(self', shiftState', tAc) = self'
           /\ (lastKey = tAc => self' = self))]_vars

\* x^y, AC, AC, none of the three flashes over yet: after the second AC the
\* expressions are empty and the power group is still counted.
C13_Witness ==
  /\ Len(timers) = 3
  /\ timers[1].button = tPow /\ timers[2].button = tAc /\ timers[3].button = tAc
  /\ lastKey = tAc
  /\ currentExpression = <<>>
  /\ currentDisplay = <<>>
  /\ powerParenthesesCount = 1

\* The names of the evaluation vocabulary: the functions, all attributes of
\* math, and the two constants.
FunctionNames ==
  { <<"s", "q", "r", "t">>, <<"c", "b", "r", "t">>, <<"l", "o", "g", "1", "0">>,
    <<"l", "o", "g">>, <<"s", "i", "n">>, <<"a", "s", "i", "n">>,
    <<"r", "a", "d", "i", "a", "n", "s">>, <<"d", "e", "g", "r", "e", "e", "s">> }
ConstantNames == { <<"e">>, <<chPi>> }

IsDot(tok) == tok.t = "op" /\ tok.s = <<".">>
IsName(tok, names) == tok.t = "name" /\ tok.s \in names

\* The token i of toks is outside the vocabulary: an attribute access that
\* is not math.<function>, or a name that is neither such a function, nor
\* math before its point, nor a constant.
OutsideAt(toks, i) ==
  IF IsDot(toks[i])
    THEN ~(/\ i > 1 /\ IsName(toks[i - 1], { <<"m", "a", "t", "h">> })
           /\ i < Len(toks) /\ IsName(toks[i + 1], FunctionNames))
  ELSE IF toks[i].t # "name" THEN FALSE
  ELSE IF i > 1 /\ IsDot(toks[i - 1]) THEN FALSE
  ELSE IF toks[i].s = <<"m", "a", "t", "h">> THEN ~(i < Len(toks) /\ IsDot(toks[i + 1]))
  ELSE toks[i].s \notin ConstantNames

OutsideVocabulary(toks) == \E i \in 1..Len(toks) : OutsideAt(toks, i)

\* C14: closed evaluation vocabulary: an expression with an identifier or an
\* attribute access other than the eight functions of math and the constants
\* e and pi is rejected: = gives "ERROR" for it.
C14_ClosedVocabulary ==
  [][(IsClick /\ lastKey' = tEq /\ OutsideVocabulary(Lex(currentExpression, 1)))
       => currentResult' = ERROR_MSG]_vars

\* C15: DEL of an ANS substitution: when the display ends with "ANS", DEL
\* takes those three characters off the display and as many characters as
\* the last answer has off the end of the internal expression, and leaves
\* the characters before them; the last answer may be empty.
C15_DeleteAnswer ==
  [][(IsClick /\ lastKey' = tDel /\ EndsWith(currentDisplay, tAns))
       => (/\ currentDisplay' = SubSeq(currentDisplay, 1, Len(currentDisplay) - 3)
           /\ currentExpression' =
                SubSeq(currentExpression, 1, Len(currentExpression) - Len(currentResult)))]_vars

\* The parentheses of the display s, from its character i on, that an
\* exponent token opened ("<sup>(") or that were opened inside such a group,
\* and that are not closed yet; d is their number before i.
OpensGroup(s, i) ==
  /\ s[i] = "("
  /\ i > 5
  /\ SubSeq(s, i - 5, i - 1) = <<"<", "s", "u", "p", ">">>

RECURSIVE OpenGroups(_, _, _)
OpenGroups(s, i, d) ==
  IF i > Len(s) THEN d
  ELSE IF s[i] = "(" /\ (d > 0 \/ OpensGroup(s, i)) THEN OpenGroups(s, i + 1, d + 1)
  ELSE IF s[i] = ")" /\ d > 0 THEN OpenGroups(s, i + 1, d - 1)
  ELSE OpenGroups(s, i + 1, d)

\* C16: meaning of the nesting counter: in every state the count of open
\* power groups is the number of parentheses of the current expression that
\* an exponent token opened, or that (, a root, log or trig opened inside such
\* a group, and that are not closed yet; so it is 0 when the expression is
\* empty, one less after DEL has removed an exponent's opening, and 0 at the
\* start of a new expression.
C16_NestingMeaning ==
  powerParenthesesCount = OpenGroups(currentDisplay, 1, 0)

\* The superscript tags of the display, and the number of times sub occurs
\* in s.
SupOpen  == <<"<", "s", "u", "p", ">">>
SupClose == <<"<", "/", "s", "u", "p", ">">>

Occurrences(s, sub) ==
  Cardinality({ i \in 1..(Len(s) - Len(sub) + 1) : SubSeq(s, i, i + Len(sub) - 1) = sub })

\* No closing tag without an opening tag before it that is not closed yet.
NoStrayClose(s) ==
  \A n \in 0..Len(s) :
    Occurrences(SubSeq(s, 1, n), SupClose) <= Occurrences(SubSeq(s, 1, n), SupOpen)

\* C17: the superscript markup of the display is well nested after any
\* sequence of tokens (here: from the initial state, before the first =): a
\* closing tag is appended only by the ) that takes the count of open power
\* groups from 1 to 0, the display never has a closing tag without an
\* unmatched opening tag before it, and when the count of open power groups
\* is 0 the display has as many closing tags as opening tags, an exponent
\* inside an exponent included.
C17_SuperscriptNesting ==
  /\ [](currentResult = <<>> =>
          /\ NoStrayClose(currentDisplay)
          /\ (powerParenthesesCount = 0 =>
                Occurrences(currentDisplay, SupOpen) = Occurrences(currentDisplay, SupClose)))
  /\ [][(IsClick /\ currentResult' = <<>>
           /\ Occurrences(currentDisplay', SupClose) > Occurrences(currentDisplay, SupClose))
          => (lastKey' = tClose /\ powerParenthesesCount = 1
                /\ powerParenthesesCount' = 0)]_vars

\* C18: calculating a result resets the nesting counter: after every =,
\* whether the evaluation failed or not, the count of open power groups is 0,
\* and a ) submitted next is shown as a plain ")".
C18_ResultResetsCount ==
  /\ [](lastKey = tEq => powerParenthesesCount = 0)
  /\ [][(IsClick /\ lastKey = tEq /\ lastKey' = tClose)
          => currentDisplay' = <<")">>]_vars

\* What a token appends to the display and to the internal expression, by the
\* table of tokens: count is the count of open power groups and pending the
\* pending implicit close when the token is submitted, answer the last answer.
TokenDisplay(t, count) ==
  IF t = tClose THEN (IF count = 1 THEN <<")">> \o SupClose ELSE <<")">>)
  ELSE IF t = tRoot THEN <<chRoot, "(">>
  ELSE IF t = tCbrt THEN <<chCbrt, "(">>
  ELSE IF t \in {tTen, tMod} THEN DisplaySpelling(t)
  ELSE FreshDisplay(t)

TokenInternal(t, pending, answer) ==
  IF t = tClose THEN (IF pending THEN <<")", ")">> ELSE <<")">>)
  ELSE IF t = tRoot THEN mathDot \o <<"s", "q", "r", "t", "(">>
  ELSE IF t = tCbrt THEN mathDot \o <<"c", "b", "r", "t", "(">>
  ELSE IF t \in {tTen, tMod} THEN InternalSpelling(t)
  ELSE FreshInternal(t, answer)

\* The tokens since the expression was last empty are insertion tokens.
InsertionRun == \A i \in DOMAIN hist : hist[i] \in InsertionTokens

\* The ANS a leading operator is applied to, as the first token of a run.
SeedDisplay(t)          == IF hist = <<>> /\ t \in LeadingTokens THEN tAns ELSE <<>>
SeedInternal(t, answer) == IF hist = <<>> /\ t \in LeadingTokens THEN answer ELSE <<>>

\* C19: lockstep of the two strings: in a run of insertion tokens from an
\* empty expression every token appends its display spelling to the display
\* and its internal spelling to the internal expression (ANS: "ANS" and the
\* last answer; a leading operator: after an ANS), so each string is the
\* concatenation of the spellings of the tokens so far and no submission
\* discards display text of an earlier token.
C19_Lockstep ==
  [][(IsClick /\ InsertionRun /\ lastKey' \in InsertionTokens)
       => (/\ currentDisplay' =
                currentDisplay \o SeedDisplay(lastKey')
                  \o TokenDisplay(lastKey', powerParenthesesCount)
           /\ currentExpression' =
                currentExpression \o SeedInternal(lastKey', currentResult)
                  \o TokenInternal(lastKey', needsClosingParentheses, currentResult)
           /\ IsPrefix(currentDisplay, currentDisplay'))]_vars

\* C20: click flash under interleaving: for any order of clicks and timer
\* firings, a second click on a button before its first timer fires included,
\* once no revert timer is pending every button has the style it had before
\* the first click; and the firing of a timer changes nothing of the
\* expression state.
C20_FlashReverts ==
  /\ [](timers = <<>> => \A button \in keyBoard : styleSheet[button] = buttonStyle)
  /\ [][(clicks' = clicks /\ timers' # timers)
          => UNCHANGED <<currentExpression, currentDisplay, currentResult,
                         powerParenthesesCount, needsClosingParentheses,
                         shiftState, buttonText, displayText>>]_vars

\* C21: backspace at the empty state is a no-op: a DEL submitted when the
\* internal and the display expression are both empty leaves the two
\* expressions, the last answer, the count of open power groups, the pending
\* implicit close and the shift state as they were, however often it is
\* repeated.
C21_DeleteAtEmpty ==
  [][(IsClick /\ lastKey' = tDel /\ currentExpression = <<>> /\ currentDisplay = <<>>)
       => (/\ self' = self
           /\ shiftState' = shiftState
           /\ buildExpression(self', shiftState', tDel) = self')]_vars

\* x^y, AC, DEL, DEL, none of the four flashes over yet: the two DELs were
\* submitted from empty expressions and the power group is still counted.
C21_Witness ==
  /\ Len(timers) = 4
  /\ timers[1].button = tPow /\ timers[2].button = tAc
  /\ timers[3].button = tDel /\ timers[4].button = tDel
  /\ lastKey = tDel
  /\ prior = << <<>>, <<>> >>
  /\ currentExpression = <<>>
  /\ currentDisplay = <<>>
  /\ powerParenthesesCount = 1

=============================================================================
